---- MODULE Spec2Model ----
(***************************************************************************)
(* Model of the napari-btrack plugin widget (napari_btrack/track.py): the  *)
(* store of named tracker configurations, the parameter widgets, the two   *)
(* sync functions between them and the five callbacks of track().          *)
(*                                                                         *)
(* Numbers stand for the numeric parameter values; every field of a config *)
(* file carries a different number so that a copy into the wrong field is  *)
(* visible.                                                                *)
(***************************************************************************)
EXTENDS Integers, Sequences, FiniteSets, TLC

VARIABLES
    unscaled_configs,   \* all_configs.configs: config name -> UnscaledTackerConfig
    current_config,     \* all_configs.current_config
    btrack_widget,      \* the container: widget name -> widget value
    viewer_layers,      \* number of tracks layers btrack_widget.viewer holds
    files,              \* the file system: path -> TrackerConfig stored there
    lastOp,             \* the callback that ran last and how it ended
    load_path,          \* the path the last load dialogue returned
    calls,              \* the external calls of the last run, if it completed
    tracker_arg,        \* the config the last run handed to run_tracker
    left,               \* what select_config last left: config name and widgets
    edits               \* number of widget edits the user has made

vars == <<unscaled_configs, current_config, btrack_widget, viewer_layers, files,
          lastOp, load_path, calls, tracker_arg, left, edits>>

\* ------------------------------------------------------------------ bounds

\* The user edits at most MaxEdits widgets by hand.
MaxEdits == 1

\* At most MaxRuns runs complete (each adds a tracks layer).
MaxRuns == 1

\* Longest hypotheses list of a config in the round-trip specification.
MaxHypLen == 2

\* ------------------------------------------------------- external library

None == "None"

\* btrack.constants.BayesianUpdates: member name by value (EXACT = 0, ...).
BayesianUpdatesName(v) ==
    CASE v = 0 -> "EXACT"
      [] v = 1 -> "APPROXIMATE"
      [] v = 2 -> "CUDA"

\* The choices of the update_method_selector combo box, in display order.
UpdateMethodChoices == <<"EXACT", "APPROXIMATE">>

\* QComboBox.currentIndex(): the 0-based position of the current choice.
currentIndex(choices, value) ==
    (CHOOSE i \in 1..Len(choices) : choices[i] = value) - 1

\* The hypothesis names both sync functions iterate over, in this order.
HypothesisNames ==
    <<"P_FP", "P_init", "P_term", "P_link", "P_branch", "P_dead", "P_merge">>

Range(s) == {s[i] : i \in 1..Len(s)}

\* ------------------------------------------------------------ config store

\* UnscaledTackerConfig._unscale_config: the sigmas are the magnitudes of the
\* motion model's P, G and R matrices, which are left normalised.
unscale_config(filename, config) ==
    [filename |-> filename,
     sigmas |-> [P |-> config.motion_model.P,
                 G |-> config.motion_model.G,
                 R |-> config.motion_model.R],
     tracker_config |->
        [config EXCEPT !.motion_model.P = @ \div config.motion_model.P,
                       !.motion_model.G = @ \div config.motion_model.G,
                       !.motion_model.R = @ \div config.motion_model.R]]

\* UnscaledTackerConfig.scale_config: a copy of the tracker config with the
\* P, G and R matrices multiplied by the sigmas.
scale_config(unscaled_config) ==
    [unscaled_config.tracker_config EXCEPT
        !.motion_model.P = @ * unscaled_config.sigmas.P,
        !.motion_model.G = @ * unscaled_config.sigmas.G,
        !.motion_model.R = @ * unscaled_config.sigmas.R]

\* The name TrackerConfigs.add_config stores a file's config under: the given
\* name, or else the name the file's TrackerConfig carries.
add_config_name(fs, filename, name) ==
    IF name = None THEN fs[filename].name ELSE name

\* TrackerConfigs.add_config raises when the name is taken and overwrite is off.
add_config_raises(configs, fs, filename, overwrite, name) ==
    /\ add_config_name(fs, filename, name) \in DOMAIN configs
    /\ ~overwrite

\* TrackerConfigs.add_config: load the file and store it under its name.
add_config(configs, fs, filename, overwrite, name) ==
    LET config_name == add_config_name(fs, filename, name)
        config == unscale_config(filename,
                                 [fs[filename] EXCEPT !.name = config_name])
    IN [n \in DOMAIN configs \cup {config_name} |->
            IF n = config_name THEN config ELSE configs[n]]

\* --------------------------------------------------------- config files

\* btrack's two default config files carry no TrackerConfig name, so a plain
\* load of either yields the TrackerConfig default name.
CellFile ==
    [name |-> "Default", update_method |-> 0, max_search_radius |-> 4,
     motion_model |-> [accuracy |-> 5, max_lost |-> 6, P |-> 1, G |-> 2, R |-> 3],
     hypothesis_model |->
        [hypotheses |-> <<"P_FP", "P_init", "P_term", "P_link", "P_branch", "P_dead">>,
         lambda_time |-> 10, lambda_dist |-> 11, lambda_link |-> 12,
         lambda_branch |-> 13, theta_dist |-> 14, theta_time |-> 15,
         dist_thresh |-> 16, time_thresh |-> 17, apop_thresh |-> 18,
         segmentation_miss_rate |-> 19]]

ParticleFile ==
    [name |-> "Default", update_method |-> 0, max_search_radius |-> 24,
     motion_model |-> [accuracy |-> 25, max_lost |-> 26, P |-> 21, G |-> 22, R |-> 23],
     hypothesis_model |->
        [hypotheses |-> <<"P_FP", "P_init", "P_term", "P_link", "P_dead">>,
         lambda_time |-> 30, lambda_dist |-> 31, lambda_link |-> 32,
         lambda_branch |-> 33, theta_dist |-> 34, theta_time |-> 35,
         dist_thresh |-> 36, time_thresh |-> 37, apop_thresh |-> 38,
         segmentation_miss_rate |-> 39]]

\* A config file of the user's, written by hand: the hypotheses are listed in
\* an order of the user's own.
UserFile ==
    [name |-> "custom", update_method |-> 1, max_search_radius |-> 44,
     motion_model |-> [accuracy |-> 45, max_lost |-> 46, P |-> 41, G |-> 42, R |-> 43],
     hypothesis_model |->
        [hypotheses |-> <<"P_merge", "P_FP", "P_link">>,
         lambda_time |-> 50, lambda_dist |-> 51, lambda_link |-> 52,
         lambda_branch |-> 53, theta_dist |-> 54, theta_time |-> 55,
         dist_thresh |-> 56, time_thresh |-> 57, apop_thresh |-> 58,
         segmentation_miss_rate |-> 59]]

NoFile == [name |-> None]

Paths == {"cell_config.json", "particle_config.json", "user.json", "saved.json"}

\* What the save dialogue box can return besides None.
SavePaths == {"saved.json"}

\* What the load dialogue box can return besides None: a file that exists.
LoadPaths(fs) == {p \in {"user.json", "saved.json"} : fs[p] # NoFile}

\* ---------------------------------------------------------- sync functions

\* The loop of update_config_from_widgets over the hypothesis checkboxes:
\* append each name whose checkbox is ticked, in the order of the loop.
RECURSIVE checked_hypotheses(_, _, _)
checked_hypotheses(container, i, hypotheses) ==
    IF i > Len(HypothesisNames) THEN hypotheses
    ELSE checked_hypotheses(container, i + 1,
            IF container[HypothesisNames[i]]
            THEN Append(hypotheses, HypothesisNames[i])
            ELSE hypotheses)

\* update_config_from_widgets with a mutated loop: the hypotheses are not taken
\* from the checkboxes.
update_config_from_widgets_keep_hypotheses(unscaled_config, container) ==
    [unscaled_config EXCEPT
        !.sigmas.P = container.P_sigma,
        !.sigmas.G = container.G_sigma,
        !.sigmas.R = container.R_sigma,
        !.tracker_config.update_method =
            currentIndex(UpdateMethodChoices, container.update_method_selector),
        !.tracker_config.max_search_radius = container.max_search_radius,
        !.tracker_config.motion_model.accuracy = container.accuracy,
        !.tracker_config.motion_model.max_lost = container.max_lost,
        !.tracker_config.hypothesis_model.lambda_time = container.lambda_time,
        !.tracker_config.hypothesis_model.lambda_dist = container.lambda_dist,
        !.tracker_config.hypothesis_model.lambda_link = container.lambda_link,
        !.tracker_config.hypothesis_model.lambda_branch = container.lambda_branch,
        !.tracker_config.hypothesis_model.theta_dist = container.theta_dist,
        !.tracker_config.hypothesis_model.theta_time = container.theta_time,
        !.tracker_config.hypothesis_model.dist_thresh = container.dist_thresh,
        !.tracker_config.hypothesis_model.time_thresh = container.time_thresh,
        !.tracker_config.hypothesis_model.apop_thresh = container.apop_thresh,
        !.tracker_config.hypothesis_model.segmentation_miss_rate =
            container.segmentation_miss_rate]

\* update_config_from_widgets: the config with every parameter overwritten by
\* its widget's value. The update method is stored as the combo box's index,
\* which the config takes as the BayesianUpdates member with that value.
update_config_from_widgets(unscaled_config, container) ==
    [unscaled_config EXCEPT
        !.sigmas.P = container.P_sigma,
        !.sigmas.G = container.G_sigma,
        !.sigmas.R = container.R_sigma,
        !.tracker_config.update_method =
            currentIndex(UpdateMethodChoices, container.update_method_selector),
        !.tracker_config.max_search_radius = container.max_search_radius,
        !.tracker_config.motion_model.accuracy = container.accuracy,
        !.tracker_config.motion_model.max_lost = container.max_lost,
        !.tracker_config.hypothesis_model.hypotheses =
            checked_hypotheses(container, 1, <<>>),
        !.tracker_config.hypothesis_model.lambda_time = container.lambda_time,
        !.tracker_config.hypothesis_model.lambda_dist = container.lambda_dist,
        !.tracker_config.hypothesis_model.lambda_link = container.lambda_link,
        !.tracker_config.hypothesis_model.lambda_branch = container.lambda_branch,
        !.tracker_config.hypothesis_model.theta_dist = container.theta_dist,
        !.tracker_config.hypothesis_model.theta_time = container.theta_time,
        !.tracker_config.hypothesis_model.dist_thresh = container.dist_thresh,
        !.tracker_config.hypothesis_model.time_thresh = container.time_thresh,
        !.tracker_config.hypothesis_model.apop_thresh = container.apop_thresh,
        !.tracker_config.hypothesis_model.segmentation_miss_rate =
            container.segmentation_miss_rate]

\* update_widgets_from_config with one assignment dropped: the max_lost widget
\* keeps its old value.
update_widgets_from_config_skip_max_lost(unscaled_config, container) ==
    LET config == unscaled_config.tracker_config
        hypothesis_model == config.hypothesis_model
    IN [container EXCEPT
        !.P_sigma = unscaled_config.sigmas.P,
        !.G_sigma = unscaled_config.sigmas.G,
        !.R_sigma = unscaled_config.sigmas.R,
        !.update_method_selector = BayesianUpdatesName(config.update_method),
        !.max_search_radius = config.max_search_radius,
        !.accuracy = config.motion_model.accuracy,
        !.P_FP = "P_FP" \in Range(hypothesis_model.hypotheses),
        !.P_init = "P_init" \in Range(hypothesis_model.hypotheses),
        !.P_term = "P_term" \in Range(hypothesis_model.hypotheses),
        !.P_link = "P_link" \in Range(hypothesis_model.hypotheses),
        !.P_branch = "P_branch" \in Range(hypothesis_model.hypotheses),
        !.P_dead = "P_dead" \in Range(hypothesis_model.hypotheses),
        !.P_merge = "P_merge" \in Range(hypothesis_model.hypotheses),
        !.lambda_time = hypothesis_model.lambda_time,
        !.lambda_dist = hypothesis_model.lambda_dist,
        !.lambda_link = hypothesis_model.lambda_link,
        !.lambda_branch = hypothesis_model.lambda_branch,
        !.theta_dist = hypothesis_model.theta_dist,
        !.theta_time = hypothesis_model.theta_time,
        !.dist_thresh = hypothesis_model.dist_thresh,
        !.time_thresh = hypothesis_model.time_thresh,
        !.apop_thresh = hypothesis_model.apop_thresh,
        !.segmentation_miss_rate = hypothesis_model.segmentation_miss_rate]

\* update_widgets_from_config: the container with every parameter widget set
\* from the config. The update method widget is given the member's name; each
\* hypothesis checkbox is ticked when its name is in the config's list.
update_widgets_from_config(unscaled_config, container) ==
    LET config == unscaled_config.tracker_config
        hypothesis_model == config.hypothesis_model
    IN [container EXCEPT
        !.P_sigma = unscaled_config.sigmas.P,
        !.G_sigma = unscaled_config.sigmas.G,
        !.R_sigma = unscaled_config.sigmas.R,
        !.update_method_selector = BayesianUpdatesName(config.update_method),
        !.max_search_radius = config.max_search_radius,
        !.accuracy = config.motion_model.accuracy,
        !.max_lost = config.motion_model.max_lost,
        !.P_FP = "P_FP" \in Range(hypothesis_model.hypotheses),
        !.P_init = "P_init" \in Range(hypothesis_model.hypotheses),
        !.P_term = "P_term" \in Range(hypothesis_model.hypotheses),
        !.P_link = "P_link" \in Range(hypothesis_model.hypotheses),
        !.P_branch = "P_branch" \in Range(hypothesis_model.hypotheses),
        !.P_dead = "P_dead" \in Range(hypothesis_model.hypotheses),
        !.P_merge = "P_merge" \in Range(hypothesis_model.hypotheses),
        !.lambda_time = hypothesis_model.lambda_time,
        !.lambda_dist = hypothesis_model.lambda_dist,
        !.lambda_link = hypothesis_model.lambda_link,
        !.lambda_branch = hypothesis_model.lambda_branch,
        !.theta_dist = hypothesis_model.theta_dist,
        !.theta_time = hypothesis_model.theta_time,
        !.dist_thresh = hypothesis_model.dist_thresh,
        !.time_thresh = hypothesis_model.time_thresh,
        !.apop_thresh = hypothesis_model.apop_thresh,
        !.segmentation_miss_rate = hypothesis_model.segmentation_miss_rate]

\* --------------------------------------------------------------- callbacks
\* Each callback is a function of the plugin state s it starts in:
\* s.configs is all_configs.configs, s.current_config is
\* all_configs.current_config and s.widget is the container.

\* select_config without its first step: the widget values are not written
\* back to the previous config.
select_config_no_write_back(s) ==
    LET new_config_name == s.widget.config_selector.value
    IN [configs |-> s.configs,
        current_config |-> new_config_name,
        widget |-> update_widgets_from_config(s.configs[new_config_name], s.widget)]

\* select_config that forgets to record the new name in the store.
select_config_keep_current(s) ==
    LET previous_config_name == s.current_config
        configs == [s.configs EXCEPT ![previous_config_name] =
                        update_config_from_widgets(@, s.widget)]
        new_config_name == s.widget.config_selector.value
    IN [configs |-> configs,
        current_config |-> previous_config_name,
        widget |-> update_widgets_from_config(configs[new_config_name], s.widget)]

\* select_config: connected to config_selector.changed, so it runs with the
\* selector already holding the new name.
select_config(s) ==
    LET previous_config_name == s.current_config
        configs == [s.configs EXCEPT ![previous_config_name] =
                        update_config_from_widgets(@, s.widget)]
        new_config_name == s.widget.config_selector.value
    IN [configs |-> configs,
        current_config |-> new_config_name,
        widget |-> update_widgets_from_config(configs[new_config_name], s.widget)]

\* Assigning config_selector.value: the combo box emits changed, and so runs
\* select_config, only when the value differs from the one it holds.
set_config_selector_value(s, value) ==
    IF s.widget.config_selector.value = value THEN s
    ELSE select_config([s EXCEPT !.widget.config_selector.value = value])

\* The tracker calls of run_tracker, in the order it makes them.
TrackerCalls ==
    <<"configure", "append", "volume", "track_interactive", "optimize", "to_napari">>

\* run_tracker with the export moved before the optimizer.
run_tracker_export_first(fail) ==
    LET order == <<"configure", "append", "volume", "track_interactive",
                   "to_napari", "optimize">>
    IN IF fail = None
       THEN [calls |-> order, returned |-> TRUE]
       ELSE [calls |-> SubSeq(order, 1,
                        CHOOSE i \in 1..Len(order) : order[i] = fail),
             returned |-> FALSE]

\* run_tracker: the calls made on the tracker up to the one that raises (fail),
\* or all of them when none does, and whether the tracks were returned.
run_tracker(fail) ==
    IF fail = None
    THEN [calls |-> TrackerCalls, returned |-> TRUE]
    ELSE [calls |-> SubSeq(TrackerCalls, 1,
                     CHOOSE i \in 1..Len(TrackerCalls) : TrackerCalls[i] = fail),
          returned |-> FALSE]

\* run_config that scales the config before it takes the widget values.
run_config_scale_before_update(s) ==
    LET name == s.widget.config_selector.value
        config == scale_config(s.configs[name])
        configs == [s.configs EXCEPT ![name] =
                        update_config_from_widgets(@, s.widget)]
    IN [configs |-> configs, tracker_arg |-> config]

\* run, up to the call of run_tracker: overwrite the config the selector
\* shows with the widget values and scale it for the tracker.
run_config(s) ==
    LET name == s.widget.config_selector.value
        configs == [s.configs EXCEPT ![name] =
                        update_config_from_widgets(@, s.widget)]
        config == scale_config(configs[name])
    IN [configs |-> configs, tracker_arg |-> config]

\* run that adds the tracks layer before it tracks.
run_add_first(prepared, layers, fail) ==
    LET tracked == run_tracker(fail)
    IN [configs |-> prepared.configs,
        tracker_arg |-> prepared.tracker_arg,
        calls |-> IF tracked.returned
                  THEN <<"add_tracks">> \o tracked.calls ELSE <<>>,
        layers |-> layers + 1,
        raised |-> ~tracked.returned]

\* run, from the call of run_tracker: track, and add the tracks to the viewer.
\* An error raised by run_tracker leaves the callback before add_tracks; the
\* calls of a run are recorded when it completes.
run(prepared, layers, fail) ==
    LET tracked == run_tracker(fail)
    IN [configs |-> prepared.configs,
        tracker_arg |-> prepared.tracker_arg,
        calls |-> IF tracked.returned
                  THEN Append(tracked.calls, "add_tracks") ELSE <<>>,
        layers |-> IF tracked.returned THEN layers + 1 ELSE layers,
        raised |-> ~tracked.returned]

\* restore_defaults: reload the file of the current config with overwrite on
\* (under the name add_config gives it) and set the widgets from the entry of
\* the current config.
restore_defaults(s, fs) ==
    LET config_name == s.current_config
        filename == s.configs[config_name].filename
        configs == add_config(s.configs, fs, filename, TRUE, None)
    IN [configs |-> configs,
        current_config |-> s.current_config,
        widget |-> update_widgets_from_config(configs[config_name], s.widget)]

\* save_config_to_json with the cancel test after the config update.
save_config_to_json_late_cancel(s, fs, save_path) ==
    LET name == s.widget.config_selector.value
        configs == [s.configs EXCEPT ![name] =
                        update_config_from_widgets(@, s.widget)]
    IN IF save_path = None
       THEN [configs |-> configs, files |-> fs]
       ELSE [configs |-> configs,
             files |-> [fs EXCEPT ![save_path] = scale_config(configs[name])]]

\* save_config_to_json: nothing when the dialogue was cancelled; otherwise
\* overwrite the config the selector shows with the widget values and write
\* its scaled form to the path.
save_config_to_json(s, fs, save_path) ==
    IF save_path = None
    THEN [configs |-> s.configs, files |-> fs]
    ELSE LET name == s.widget.config_selector.value
             configs == [s.configs EXCEPT ![name] =
                            update_config_from_widgets(@, s.widget)]
         IN [configs |-> configs,
             files |-> [fs EXCEPT ![save_path] = scale_config(configs[name])]]

\* load_config_from_json that adds the choice but never selects it.
load_config_from_json_no_select(s, fs, path) ==
    IF path = None \/ add_config_raises(s.configs, fs, path, FALSE, None)
    THEN s
    ELSE LET config_name == add_config_name(fs, path, None)
         IN [s EXCEPT
                !.configs = add_config(s.configs, fs, path, FALSE, None),
                !.widget.config_selector.choices = Append(@, config_name)]

\* load_config_from_json: nothing when the dialogue was cancelled or add_config
\* raised; otherwise the config is stored, its name is appended to the
\* selector's choices and made the selector's value.
load_config_from_json(s, fs, path) ==
    IF path = None \/ add_config_raises(s.configs, fs, path, FALSE, None)
    THEN s
    ELSE LET config_name == add_config_name(fs, path, None)
             added == [s EXCEPT
                !.configs = add_config(s.configs, fs, path, FALSE, None),
                !.widget.config_selector.choices = Append(@, config_name)]
         IN set_config_selector_value(added, config_name)

\* ------------------------------------------------------------------ state

\* The parameter widgets the user can type a number into.
NumericWidgets ==
    {"P_sigma", "G_sigma", "R_sigma", "max_search_radius", "accuracy", "max_lost",
     "lambda_time", "lambda_dist", "lambda_link", "lambda_branch",
     "theta_dist", "theta_time", "dist_thresh", "time_thresh", "apop_thresh",
     "segmentation_miss_rate"}

\* The number the user types into a numeric widget: one no config file holds.
EditValues == {9}

\* The widgets the user edits by hand, one of each kind: a sigma, a plain
\* number, the update method and a hypothesis checkbox.
EditedWidgets == {"P_sigma", "max_lost", "update_method_selector", "P_merge"}

\* The values a parameter widget can be given by hand.
WidgetValues(w) ==
    IF w \in NumericWidgets THEN EditValues
    ELSE IF w = "update_method_selector" THEN Range(UpdateMethodChoices)
    ELSE BOOLEAN

\* The container as _create_widgets builds it, before any value is set.
NewContainer ==
    [P_sigma |-> 0, G_sigma |-> 0, R_sigma |-> 0,
     update_method_selector |-> "EXACT",
     max_search_radius |-> 0, accuracy |-> 0, max_lost |-> 0,
     P_FP |-> FALSE, P_init |-> FALSE, P_term |-> FALSE, P_link |-> FALSE,
     P_branch |-> FALSE, P_dead |-> FALSE, P_merge |-> FALSE,
     lambda_time |-> 0, lambda_dist |-> 0, lambda_link |-> 0, lambda_branch |-> 0,
     theta_dist |-> 0, theta_time |-> 0, dist_thresh |-> 0, time_thresh |-> 0,
     apop_thresh |-> 0, segmentation_miss_rate |-> 0,
     config_selector |-> [value |-> "cell", choices |-> <<"cell", "particle">>]]

\* The files on disk when the plugin starts.
InitialFiles ==
    [p \in Paths |->
        CASE p = "cell_config.json" -> CellFile
          [] p = "particle_config.json" -> ParticleFile
          [] p = "user.json" -> UserFile
          [] OTHER -> NoFile]

\* TrackerConfigs.__post_init__ (_create_default_configs): btrack's cell and
\* particle configs, stored under the names "cell" and "particle".
DefaultConfigs ==
    add_config(
        add_config(<<>>, InitialFiles,
                   "cell_config.json", FALSE, "cell"),
        InitialFiles, "particle_config.json", FALSE, "particle")

NoLeft == [name |-> None]
NoArg == [name |-> None]

\* The plugin state the callbacks work on.
State ==
    [configs |-> unscaled_configs,
     current_config |-> current_config,
     widget |-> btrack_widget]

\* track(): the store holds the default configs with "cell" current, and the
\* widgets show the cell config's values.
Init ==
    /\ unscaled_configs = DefaultConfigs
    /\ current_config = "cell"
    /\ btrack_widget = update_widgets_from_config(DefaultConfigs["cell"], NewContainer)
    /\ viewer_layers = 0
    /\ files = InitialFiles
    /\ lastOp = "init"
    /\ load_path = None
    /\ calls = <<>>
    /\ tracker_arg = NoArg
    /\ left = NoLeft
    /\ edits = 0

\* ---------------------------------------------------------------- actions

\* The user changes the value of one parameter widget.
EditWidget ==
    /\ edits < MaxEdits
    /\ \E w \in EditedWidgets : \E v \in WidgetValues(w) :
        /\ v # btrack_widget[w]
        /\ btrack_widget' = [btrack_widget EXCEPT ![w] = v]
    /\ edits' = edits + 1
    /\ lastOp' = "edit"
    /\ load_path' = None
    /\ calls' = <<>>
    /\ tracker_arg' = NoArg
    /\ left' = NoLeft
    /\ UNCHANGED <<unscaled_configs, current_config, viewer_layers, files>>

\* The user picks another name in the config selector: select_config runs.
SelectConfig ==
    /\ \E name \in Range(btrack_widget.config_selector.choices) :
        \E after \in {set_config_selector_value(State, name)} :
           /\ name # btrack_widget.config_selector.value
           /\ unscaled_configs' = after.configs
           /\ current_config' = after.current_config
           /\ btrack_widget' = after.widget
    /\ left' = [name |-> current_config, widget |-> btrack_widget]
    /\ lastOp' = "select"
    /\ load_path' = None
    /\ calls' = <<>>
    /\ tracker_arg' = NoArg
    /\ UNCHANGED <<viewer_layers, files, edits>>

\* The user presses the run button; the tracking library may raise at any of
\* its calls.
Run ==
    /\ \E prepared \in {run_config(State)} :
        \E fail \in {None} \cup Range(TrackerCalls) :
        \E after \in {run(prepared, viewer_layers, fail)} :
           /\ fail = None => viewer_layers < MaxRuns
           /\ unscaled_configs' = after.configs
           /\ tracker_arg' = after.tracker_arg
           /\ calls' = after.calls
           /\ viewer_layers' = after.layers
           /\ lastOp' = IF after.raised THEN "run_raised" ELSE "run"
    /\ load_path' = None
    /\ left' = NoLeft
    /\ UNCHANGED <<current_config, btrack_widget, files, edits>>

\* The user presses the reset button.
RestoreDefaults ==
    /\ \E after \in {restore_defaults(State, files)} :
          /\ unscaled_configs' = after.configs
          /\ current_config' = after.current_config
          /\ btrack_widget' = after.widget
    /\ lastOp' = "restore"
    /\ load_path' = None
    /\ calls' = <<>>
    /\ tracker_arg' = NoArg
    /\ left' = NoLeft
    /\ UNCHANGED <<viewer_layers, files, edits>>

\* The user presses the save button and picks a path or cancels.
SaveConfigToJson ==
    /\ \E save_path \in {None} \cup SavePaths :
        \E after \in {save_config_to_json(State, files, save_path)} :
           /\ unscaled_configs' = after.configs
           /\ files' = after.files
           /\ lastOp' = IF save_path = None THEN "save_cancelled" ELSE "save"
    /\ load_path' = None
    /\ calls' = <<>>
    /\ tracker_arg' = NoArg
    /\ left' = NoLeft
    /\ UNCHANGED <<current_config, btrack_widget, viewer_layers, edits>>

\* The user presses the load button and picks an existing file or cancels.
LoadConfigFromJson ==
    /\ \E path \in {None} \cup LoadPaths(files) :
        \E after \in {load_config_from_json(State, files, path)} :
           /\ unscaled_configs' = after.configs
           /\ current_config' = after.current_config
           /\ btrack_widget' = after.widget
           /\ load_path' = path
           /\ lastOp' = IF path = None THEN "load_cancelled"
                        ELSE IF add_config_raises(unscaled_configs, files,
                                                  path, FALSE, None)
                             THEN "load_raised" ELSE "load"
    /\ calls' = <<>>
    /\ tracker_arg' = NoArg
    /\ left' = NoLeft
    /\ UNCHANGED <<viewer_layers, files, edits>>

Next ==
    \/ EditWidget
    \/ SelectConfig
    \/ Run
    \/ RestoreDefaults
    \/ SaveConfigToJson
    \/ LoadConfigFromJson

Spec == Init /\ [][Next]_vars

\* ------------------------------------------------- round trip of a config
\* A second specification, for the two sync functions alone: the store holds
\* a config "source" and a config "target"; the widgets are set from the
\* source and then written into the target.

\* The hypotheses lists a config file may hold: any names, in any order.
HypothesesLists ==
    UNION {[1..n -> Range(HypothesisNames)] : n \in 0..MaxHypLen}

\* The configs the round trip starts from.
RoundTripConfigs ==
    {unscale_config("source.json",
                    [f EXCEPT !.name = "source", !.hypothesis_model.hypotheses = h]) :
        f \in {CellFile, UserFile},
        h \in HypothesesLists \cup {CellFile.hypothesis_model.hypotheses}}

InitRoundTrip ==
    /\ \E source \in RoundTripConfigs :
       \E target \in {DefaultConfigs["particle"], source} :
            unscaled_configs = [n \in {"source", "target"} |->
                                    IF n = "source" THEN source ELSE target]
    /\ current_config = "source"
    /\ btrack_widget = [NewContainer EXCEPT
            !.config_selector = [value |-> "source",
                                 choices |-> <<"source", "target">>]]
    /\ viewer_layers = 0
    /\ files = InitialFiles
    /\ lastOp = "init"
    /\ load_path = None
    /\ calls = <<>>
    /\ tracker_arg = NoArg
    /\ left = NoLeft
    /\ edits = 0

\* update_widgets_from_config(source, container)
WidgetsFromConfig ==
    /\ lastOp = "init"
    /\ btrack_widget' =
            update_widgets_from_config(unscaled_configs["source"], btrack_widget)
    /\ lastOp' = "widgets_set"
    /\ UNCHANGED <<unscaled_configs, current_config, viewer_layers, files,
                   load_path, calls, tracker_arg, left, edits>>

\* update_config_from_widgets(target, container)
ConfigFromWidgets ==
    /\ lastOp = "widgets_set"
    /\ unscaled_configs' = [unscaled_configs EXCEPT !["target"] =
            update_config_from_widgets(@, btrack_widget)]
    /\ lastOp' = "config_set"
    /\ UNCHANGED <<current_config, btrack_widget, viewer_layers, files,
                   load_path, calls, tracker_arg, left, edits>>

NextRoundTrip ==
    \/ WidgetsFromConfig
    \/ ConfigFromWidgets

SpecRoundTrip == InitRoundTrip /\ [][NextRoundTrip]_vars

\* ------------------------------------------------------------------ claims

\* Every parameter widget of the container holds exactly the value the config
\* stores for it: the numbers are equal, the update method widget shows the
\* name of the config's update method, and a hypothesis checkbox is ticked
\* exactly when the config's list holds its name.
WidgetsMatchConfig(container, unscaled_config) ==
    LET config == unscaled_config.tracker_config
        hypothesis_model == config.hypothesis_model
    IN /\ container.P_sigma = unscaled_config.sigmas.P
       /\ container.G_sigma = unscaled_config.sigmas.G
       /\ container.R_sigma = unscaled_config.sigmas.R
       /\ \/ container.update_method_selector = "EXACT" /\ config.update_method = 0
          \/ container.update_method_selector = "APPROXIMATE" /\ config.update_method = 1
       /\ container.max_search_radius = config.max_search_radius
       /\ container.accuracy = config.motion_model.accuracy
       /\ container.max_lost = config.motion_model.max_lost
       /\ \A h \in {"P_FP", "P_init", "P_term", "P_link", "P_branch", "P_dead", "P_merge"} :
            container[h] <=> (\E i \in DOMAIN hypothesis_model.hypotheses :
                                hypothesis_model.hypotheses[i] = h)
       /\ container.lambda_time = hypothesis_model.lambda_time
       /\ container.lambda_dist = hypothesis_model.lambda_dist
       /\ container.lambda_link = hypothesis_model.lambda_link
       /\ container.lambda_branch = hypothesis_model.lambda_branch
       /\ container.theta_dist = hypothesis_model.theta_dist
       /\ container.theta_time = hypothesis_model.theta_time
       /\ container.dist_thresh = hypothesis_model.dist_thresh
       /\ container.time_thresh = hypothesis_model.time_thresh
       /\ container.apop_thresh = hypothesis_model.apop_thresh
       /\ container.segmentation_miss_rate = hypothesis_model.segmentation_miss_rate

\* The config the selector shows.
SelectedConfig == unscaled_configs[btrack_widget.config_selector.value]

\* C1: whenever select_config has just finished after the user picked a name,
\* the store's current_config is the picked name and every parameter widget
\* holds exactly the value stored in that config.
C1_SelectSyncsWidgets ==
    lastOp = "select" =>
        /\ current_config = btrack_widget.config_selector.value
        /\ current_config \in DOMAIN unscaled_configs
        /\ WidgetsMatchConfig(btrack_widget, unscaled_configs[current_config])

\* C1 witness: the user has picked the loaded config "custom" (whose file lists
\* its hypotheses out of order) after leaving it, and select_config finished.
C1_Witness ==
    /\ lastOp = "select"
    /\ current_config = "custom"
    /\ btrack_widget.P_merge /\ btrack_widget.max_lost = 46

\* The config load_config_from_json read from load_path is the selected one
\* and the widgets hold its values.
LoadedIsSelected ==
    LET name == files[load_path].name
        loaded == unscale_config(load_path, files[load_path])
    IN /\ btrack_widget.config_selector.value = name
       /\ current_config = name
       /\ name \in DOMAIN unscaled_configs
       /\ WidgetsMatchConfig(btrack_widget, loaded)

C3_RunUsesWidgetValues ==
    lastOp \in {"run", "run_raised"} =>
        /\ WidgetsMatchConfig(btrack_widget, SelectedConfig)
        /\ tracker_arg = scale_config(SelectedConfig)
        /\ tracker_arg.motion_model.P = btrack_widget.P_sigma
        /\ tracker_arg.motion_model.max_lost = btrack_widget.max_lost
        /\ tracker_arg.update_method =
                (IF btrack_widget.update_method_selector = "EXACT" THEN 0 ELSE 1)
        /\ btrack_widget.P_merge <=>
                (\E i \in DOMAIN tracker_arg.hypothesis_model.hypotheses :
                    tracker_arg.hypothesis_model.hypotheses[i] = "P_merge")

\* C3 witness: a run completed with a sigma the user typed, which the config
\* held before the run did not have.
C3_Witness ==
    /\ lastOp = "run"
    /\ btrack_widget.P_sigma = 9
    /\ tracker_arg.motion_model.P = 9

\* The parameter values of a config: everything but the file it came from
\* and the name it carries.
ParameterValues(unscaled_config) ==
    [unscaled_config EXCEPT !.filename = "", !.tracker_config.name = ""]

\* The names of a hypotheses list h, each once, in the order of the seven
\* checkboxes.
InCheckboxOrder(h) ==
    LET Listed(name) == \E i \in DOMAIN h : h[i] = name
    IN SelectSeq(<<"P_FP", "P_init", "P_term", "P_link", "P_branch", "P_dead", "P_merge">>,
                 Listed)

ProgramState ==
    <<unscaled_configs, current_config, btrack_widget, viewer_layers, files>>

\* C5: a save or load whose dialogue was cancelled changes nothing: the store,
\* current_config, the selector, the widgets and the files stay as they were.
C5_CancelChangesNothing ==
    [][lastOp' \in {"save_cancelled", "load_cancelled"} =>
            ProgramState' = ProgramState]_vars

\* C5 witness: the save dialogue was cancelled while the selected config did
\* not yet hold the widget values (a save would have changed it).
C5_Witness ==
    /\ lastOp = "save_cancelled"
    /\ ~WidgetsMatchConfig(btrack_widget, SelectedConfig)
    /\ files["saved.json"] = NoFile

\* C6: a run that completes has called configure, append, set the volume,
\* track, optimize and export in this order and then added the tracks; it adds
\* exactly one tracks layer, a run that does not get past the tracker adds
\* none, and nothing else adds one.
C6_RunCallsInOrder ==
    [][/\ lastOp' = "run" =>
            /\ calls' = <<"configure", "append", "volume", "track_interactive",
                          "optimize", "to_napari", "add_tracks">>
            /\ viewer_layers' = viewer_layers + 1
       /\ lastOp' # "run" =>
            /\ viewer_layers' = viewer_layers
            /\ calls' = <<>>]_vars

\* C6 witness: a run has completed and its tracks layer is in the viewer.
C6_Witness ==
    /\ lastOp = "run"
    /\ viewer_layers = 1
    /\ Len(calls) = 7

\* C7: when the tracking library raises in run_tracker, no tracks layer is
\* added, the widgets and the selection are left as they were, and the
\* selected config holds the widget values.
C7_RaisedRunAddsNothing ==
    [][lastOp' = "run_raised" =>
            /\ viewer_layers' = viewer_layers
            /\ btrack_widget' = btrack_widget
            /\ current_config' = current_config
            /\ files' = files
            /\ calls' = <<>>
            /\ WidgetsMatchConfig(btrack_widget, unscaled_configs'[current_config])
            /\ \A n \in DOMAIN unscaled_configs : n # current_config =>
                    unscaled_configs'[n] = unscaled_configs[n]]_vars

\* C7 witness: a run raised after the selected config took a value the user
\* had typed.
C7_Witness ==
    /\ lastOp = "run_raised"
    /\ btrack_widget.max_lost = 9
    /\ unscaled_configs[current_config].tracker_config.motion_model.max_lost = 9
    /\ viewer_layers = 0

\* C8: select_config writes the widget values into the config being left and
\* not into the one being selected, and on selecting back the config that was
\* left last, every widget shows the value it had when that config was left.
C8_EditsSurviveSwitching ==
    [][lastOp' = "select" =>
            /\ WidgetsMatchConfig(btrack_widget, unscaled_configs'[current_config])
            /\ current_config' # current_config
            /\ unscaled_configs'[current_config'] = unscaled_configs[current_config']
            /\ left.name = current_config' => btrack_widget' = left.widget]_vars

\* C8 witness: the user edited max_lost with "cell" selected, selected
\* "particle" and then "cell" again, and the widget shows the edit.
C8_Witness ==
    /\ lastOp = "select"
    /\ current_config = "cell"
    /\ left.name = "particle"
    /\ btrack_widget.max_lost = 9
    /\ unscaled_configs["particle"].tracker_config.motion_model.max_lost = 26

\* C9 as claimed: after restore_defaults the entry of the current config is
\* the config read again from its file and the widgets hold the file's values.
C9_RestoreReloadsCurrent ==
    lastOp = "restore" =>
        LET filename == unscaled_configs[current_config].filename
            reloaded == unscale_config(filename,
                            [files[filename] EXCEPT !.name = current_config])
        IN /\ unscaled_configs[current_config] = reloaded
           /\ WidgetsMatchConfig(btrack_widget, reloaded)

\* C10: between callbacks the store's current_config is the selector's value,
\* which is one of its choices and names a config of the store.
C10_CurrentIsSelected ==
    /\ current_config = btrack_widget.config_selector.value
    /\ current_config \in DOMAIN unscaled_configs
    /\ \E i \in DOMAIN btrack_widget.config_selector.choices :
            btrack_widget.config_selector.choices[i] = current_config

\* C10 witness: after a load and further callbacks the user has selected a
\* default config again, with the loaded one still in the store.
C10_Witness ==
    /\ lastOp = "select"
    /\ current_config = "particle"
    /\ "custom" \in DOMAIN unscaled_configs
    /\ viewer_layers = 1

====
